---- MODULE Spec2Model ----
(***************************************************************************)
(* Model of the Syntra backend: the POST /analyze handler, the per-diagram *)
(* validate/repair loop (validateAndFixDiagrams), the two diagram          *)
(* validators and the markdown re-assembly.                                *)
(*                                                                         *)
(* Texts are sequences of tokens.  One token stands for one lexical unit   *)
(* the code's regular expressions and string operations distinguish:       *)
(*   "O"  the literal  {{DIAGRAM_        "C"  the literal  }}              *)
(*   "0" .. "9"   decimal digits         "F"  a code fence  ```            *)
(*   "n"  a newline     "s"  a blank     "w" "v"  word characters          *)
(*   "x"  any other character           "mermaid" "plantuml"  the two     *)
(*   language tags the assembler writes (word characters).                 *)
(* A JavaScript value that may be undefined is a sequence of length <= 1:  *)
(* <<>> is undefined (or null), <<v>> is the value v.                      *)
(***************************************************************************)
EXTENDS Integers, Sequences, FiniteSets, TLC

VARIABLES
    handler,            \* which server file runs: "part_000" or "index_js"
    apiKey,             \* process.env.OPENAI_API_KEY is set
    mermaidInitialized, \* module-level flag of validate-diagrams.js
    pc,                 \* position of the request inside the handler
    parsed,             \* let parsed: <<>> until JSON.parse assigns it
    i,                  \* loop index of validateAndFixDiagrams
    currentCode,        \* let currentCode (<<>> undefined, <<text>>)
    attempts,           \* let attempts
    isValid,            \* let isValid
    lastError,          \* let lastError (<<>> null, <<text>>)
    results,            \* const results
    pending,            \* a validation decided before the validator's await
    response,           \* what the handler sent: <<>> before, <<r>> after
    llmCalls,           \* history: openai.responses.create calls of the request
    valCalls,           \* history: validator calls for the current diagram
    fixCalls,           \* history: repair calls for the current diagram
    fixReturned,        \* history: text extracted from the latest repair
                        \*          response for the current diagram
    exitReason,         \* history: how the while loop of the diagram was left
    lastValidated,      \* history: text and outcome of the latest validator
                        \*          call for the current diagram
    receivedKind,       \* history: shape of the diagrams field of the object
                        \*          JSON.parse returned ("none" before)
    parsedBy,           \* history: which JSON.parse call produced parsed:
                        \*          "none", "strict" or "repair"
    setupAttempted,     \* history: the body of initMermaid has started once
    lastFetched,        \* history: what the renderer did for the latest
                        \*          validator call (<<>> when it was not asked)
    fetchCalls,         \* history: GETs to the renderer for the current diagram
    failedVals,         \* history: failed validations of the current diagram
    valTotal,           \* history: validator calls of the request
    envelope,           \* extractText alone: its argument
    extraction,         \* extractText alone: <<>> before the call, <<r>> after
    template,           \* re-assembly alone: parsed.markdown
    validatedDiagrams,  \* re-assembly alone: the list validateAndFixDiagrams
                        \*          returned
    finalMarkdowns,     \* re-assembly alone: finalMarkdown of each run so far
    state,              \* frontend: the state of AnalysisProvider
    calls,              \* frontend: the analyzeFile calls made, each with its
                        \*          file and whether it still awaits the server
    route,              \* frontend: the screen shown, "/" or "/report"
    lastAction,         \* frontend history: the call started last, 0 when
                        \*          nothing or reset() came after it
    shown               \* frontend history: the call whose setState wrote
                        \*          state last, 0 for the initial or reset state

vars == << handler, apiKey, mermaidInitialized, pc, parsed, i,
           currentCode, attempts, isValid, lastError, results, pending,
           response, llmCalls, valCalls, fixCalls, fixReturned, exitReason,
           lastValidated, receivedKind, parsedBy, setupAttempted,
           lastFetched, fetchCalls, failedVals, valTotal,
           envelope, extraction, template, validatedDiagrams, finalMarkdowns,
           state, calls, route, lastAction, shown >>

----------------------------------------------------------------------------
(* Bounds of the model *)

MaxDiagrams == 2

\* Nodes of an output list and items of a choices list given to extractText
MaxNodes == 2

\* Runs of the re-assembly on one (markdown, diagram list) pair
MaxRuns == 2

\* Tokens of a definition given to validatePlantUML
MaxDefinition == 2

(* Program constants *)

maxRetries == 2

----------------------------------------------------------------------------
(* Text helpers: String.prototype.trim and the two fence-stripping regexes *)

IsSpaceTok(t) == t \in {"n", "s"}

IsWordTok(t) ==
    t \in {"w", "v", "mermaid", "plantuml", "undefined",
           "0", "1", "2", "3", "4", "5", "6", "7", "8", "9"}

RECURSIVE TrimLeft(_)
TrimLeft(s) ==
    IF s = <<>> THEN <<>>
    ELSE IF IsSpaceTok(Head(s)) THEN TrimLeft(Tail(s)) ELSE s

RECURSIVE TrimRight(_)
TrimRight(s) ==
    IF s = <<>> THEN <<>>
    ELSE IF IsSpaceTok(s[Len(s)]) THEN TrimRight(SubSeq(s, 1, Len(s) - 1)) ELSE s

Trim(s) == TrimRight(TrimLeft(s))

RECURSIVE SkipWord(_)
SkipWord(s) ==
    IF s = <<>> THEN <<>>
    ELSE IF IsWordTok(Head(s)) THEN SkipWord(Tail(s)) ELSE s

\* .replace(/^```\w*\n/, '')
StripLeadingFence(s) ==
    IF s # <<>> /\ Head(s) = "F"
    THEN LET rest == SkipWord(Tail(s))
         IN  IF rest # <<>> /\ Head(rest) = "n" THEN Tail(rest) ELSE s
    ELSE s

\* .replace(/\n```$/, '')
StripTrailingFence(s) ==
    IF Len(s) >= 2 /\ s[Len(s) - 1] = "n" /\ s[Len(s)] = "F"
    THEN SubSeq(s, 1, Len(s) - 2)
    ELSE s

\* fixedCode.replace(/^```\w*\n/, '').replace(/\n```$/, '').trim()
StripFences(fixedCode) == Trim(StripTrailingFence(StripLeadingFence(fixedCode)))

----------------------------------------------------------------------------
(* extractText: the response envelope of openai.responses.create           *)
(*   envelope  <<>>                          null / undefined              *)
(*             <<[output, choices]>>         an object                     *)
(*   output    <<>> absent or falsy, else <<[isArray, nodes]>>             *)
(*   node      <<>> a null node, else <<content>>, content a sequence of   *)
(*             chunks (node.content ?? []); a chunk <<>> is a null chunk,  *)
(*             <<t>> a chunk whose text (or text.value) is the string t    *)
(*   choices   <<>> absent or falsy, else <<[isArray, items]>>, an item    *)
(*             <<>> a null choice, <<t>> a choice with message.content t   *)

RECURSIVE JoinLines(_)
JoinLines(ts) ==
    IF ts = <<>> THEN <<>>
    ELSE IF Len(ts) = 1 THEN ts[1]
    ELSE ts[1] \o <<"n">> \o JoinLines(Tail(ts))

RECURSIVE FlatContent(_)
FlatContent(nodes) ==
    IF nodes = <<>> THEN <<>> ELSE nodes[1][1] \o FlatContent(Tail(nodes))

RECURSIVE ChunkTexts(_)
ChunkTexts(chunks) ==
    IF chunks = <<>> THEN <<>>
    ELSE LET t == chunks[1][1]
         IN  (IF t = <<>> THEN <<>> ELSE <<t>>) \o ChunkTexts(Tail(chunks))

RECURSIVE ChoiceTexts(_)
ChoiceTexts(items) ==
    IF items = <<>> THEN <<>> ELSE <<items[1][1]>> \o ChoiceTexts(Tail(items))

HasNull(seq) == \E k \in 1..Len(seq) : seq[k] = <<>>

Returned(t) == [threw |-> FALSE, text |-> t]
Thrown == [threw |-> TRUE, text |-> <<>>]

extractText(resp) ==
    IF resp = <<>> THEN Returned(<<>>)
    ELSE LET r == resp[1] IN
         IF r.output # <<>>
         THEN LET out == r.output[1] IN
              IF ~out.isArray \/ HasNull(out.nodes) THEN Thrown
              ELSE LET chunks == FlatContent(out.nodes) IN
                   IF HasNull(chunks) THEN Thrown
                   ELSE Returned(Trim(JoinLines(ChunkTexts(chunks))))
         ELSE IF r.choices # <<>>
         THEN LET ch == r.choices[1] IN
              IF ~ch.isArray \/ HasNull(ch.items) THEN Thrown
              ELSE Returned(Trim(JoinLines(ChoiceTexts(ch.items))))
         ELSE Returned(<<>>)

\* Envelopes the generative source may answer with, carrying the text t
OutputEnv(t) ==
    <<[output |-> <<[isArray |-> TRUE, nodes |-> << << << <<t>> >> >> >>]>>,
       choices |-> <<>>]>>
ChoicesEnv(t) ==
    <<[output |-> <<>>, choices |-> <<[isArray |-> TRUE, items |-> << <<t>> >>]>>]>>
BadOutputEnv ==
    <<[output |-> <<[isArray |-> FALSE, nodes |-> <<>>]>>, choices |-> <<>>]>>
NullNodeEnv ==
    <<[output |-> <<[isArray |-> TRUE, nodes |-> << <<>> >>]>>, choices |-> <<>>]>>
EmptyOutputEnv(t) ==
    <<[output |-> <<[isArray |-> TRUE, nodes |-> <<>>]>>,
       choices |-> <<[isArray |-> TRUE, items |-> << <<t>> >>]>>]>>

Envelopes(texts) ==
    {<<>>, BadOutputEnv, NullNodeEnv}
      \cup {OutputEnv(t) : t \in texts} \cup {ChoicesEnv(t) : t \in texts}
      \cup {EmptyOutputEnv(t) : t \in texts}

----------------------------------------------------------------------------
(* The diagram validators (validate-diagrams.js)                           *)
(* A validation is [valid, error]; error is <<>> for null, else <<text>>.  *)

Valid == [valid |-> TRUE, error |-> <<>>]
Invalid(msg) == [valid |-> FALSE, error |-> <<msg>>]

\* initMermaid(): the new value of mermaidInitialized after a call during
\* which the set-up either completes or throws part-way
initMermaid(flag, setupThrows) == flag \/ ~setupThrows

\* The part of validateMermaid that runs before `await mermaid.parse`:
\* <<>> when the parser is reached, else the validation already decided.
\* definition is <<>> for undefined, else <<text>>.
validateMermaidSync(definition, flag, setupThrows) ==
    IF ~flag /\ setupThrows THEN << Invalid(<<"setup failed">>) >>
    ELSE IF definition = <<>> THEN << Invalid(<<"TypeError">>) >>
    ELSE IF Trim(definition[1]) = <<>> THEN << Invalid(<<"Empty Mermaid definition">>) >>
    ELSE <<>>

\* await mermaid.parse(trimmed): resolves, or throws with a message
validateMermaidAsync(parseOk) ==
    IF parseOk THEN Valid ELSE Invalid(<<"Parse error">>)

\* Mutant: the test of the trimmed text is lost, empty text is encoded and
\* sent to the renderer
validatePlantUMLSyncNoEmptyTest(definition) ==
    IF definition = <<>> THEN << Invalid(<<"TypeError">>) >> ELSE <<>>

\* The part of validatePlantUML that runs before `await fetch(...)`
validatePlantUMLSync(definition) ==
    IF definition = <<>> THEN << Invalid(<<"TypeError">>) >>
    ELSE IF Trim(definition[1]) = <<>> THEN << Invalid(<<"Empty PlantUML definition">>) >>
    ELSE <<>>

Includes(text, tok) == \E k \in 1..Len(text) : text[k] = tok

\* Mutant: the error marker ^^^^^ is not looked for
HasErrorIndicatorNoMarker(text) ==
    \/ Includes(text, "cannot include")
    \/ Includes(text, "syntax error")
    \/ Includes(text, "Error")

\* text.includes('cannot include') || ... || text.includes('^^^^^')
HasErrorIndicator(text) ==
    \/ Includes(text, "cannot include")
    \/ Includes(text, "syntax error")
    \/ Includes(text, "Error")
    \/ Includes(text, "^^^^^")

\* /cannot [^\n]+|syntax error[^\n]*|Error[^\n]*/i : the tokens the
\* case-insensitive pattern can start a match on
StartsErrorMatch(tok) ==
    tok \in {"cannot include", "syntax error", "Error", "error"}

RECURSIVE UpToNewline(_)
UpToNewline(s) ==
    IF s = <<>> \/ Head(s) = "n" THEN <<>> ELSE <<Head(s)>> \o UpToNewline(Tail(s))

\* text.match(...): <<>> for no match, else <<errorMatch[0]>>
RECURSIVE ErrorMatch(_)
ErrorMatch(text) ==
    IF text = <<>> THEN <<>>
    ELSE IF StartsErrorMatch(Head(text)) THEN << UpToNewline(text) >>
    ELSE ErrorMatch(Tail(text))

\* Mutant: response.ok is not looked at, the body of an error page is read
\* like a rendering
validatePlantUMLAsyncIgnoresStatus(fetched) ==
    IF fetched.threw THEN Invalid(<<"fetch failed">>)
    ELSE IF HasErrorIndicator(fetched.text)
         THEN Invalid(<<"PlantUML syntax error detected">>)
    ELSE Valid

\* The rest of validatePlantUML, applied to what the renderer did:
\* fetched = [threw, ok, status, statusText, text]
validatePlantUMLAsync(fetched) ==
    IF fetched.threw THEN Invalid(<<"fetch failed">>)
    ELSE IF ~fetched.ok
         THEN Invalid(<<"HTTP", fetched.status, ":", fetched.statusText>>)
    ELSE IF HasErrorIndicator(fetched.text)
         THEN LET errorMatch == ErrorMatch(fetched.text)
              IN  Invalid(IF errorMatch # <<>> THEN Trim(errorMatch[1])
                          ELSE <<"PlantUML syntax error detected">>)
    ELSE Valid

----------------------------------------------------------------------------
(* Re-assembly of the markdown (the tail of the /analyze handler)          *)

Digits == <<"0", "1", "2", "3", "4", "5", "6", "7", "8", "9">>

IsDigitTok(t) == \E k \in 1..Len(Digits) : Digits[k] = t

\* String(k) for a non-negative integer k
RECURSIVE Decimal(_)
Decimal(k) ==
    IF k < 10 THEN << Digits[k + 1] >>
    ELSE Decimal(k \div 10) \o << Digits[(k % 10) + 1] >>

\* `{{DIAGRAM_${diagram.originalPosition}}}`
Placeholder(k) == <<"O">> \o Decimal(k) \o <<"C">>

StartsWith(s, pat) == Len(s) >= Len(pat) /\ SubSeq(s, 1, Len(pat)) = pat

\* `${diagram.code}` : undefined prints as the word undefined
CodeText(code) == IF code = <<>> THEN <<"undefined">> ELSE code[1]

\* diagram.type === 'mermaid' ? ```mermaid ... ``` : ```plantuml ... ```
DiagramBlock(diagram) ==
    <<"F", IF diagram.type = "mermaid" THEN "mermaid" ELSE "plantuml", "n">>
        \o CodeText(diagram.code) \o <<"n", "F">>

\* The replacement patterns String.prototype.replace expands in a
\* replacement string: $$ is a dollar sign, $& the matched text
RECURSIVE ExpandReplacement(_, _)
ExpandReplacement(repl, matched) ==
    IF repl = <<>> THEN <<>>
    ELSE IF Len(repl) >= 2 /\ repl[1] = "$" /\ repl[2] = "$"
         THEN <<"$">> \o ExpandReplacement(SubSeq(repl, 3, Len(repl)), matched)
    ELSE IF Len(repl) >= 2 /\ repl[1] = "$" /\ repl[2] = "&"
         THEN matched \o ExpandReplacement(SubSeq(repl, 3, Len(repl)), matched)
    ELSE <<Head(repl)>> \o ExpandReplacement(Tail(repl), matched)

\* Mutant: replaceAll, every occurrence of the pattern is replaced
RECURSIVE ReplaceEvery(_, _, _)
ReplaceEvery(s, pat, repl) ==
    IF Len(s) < Len(pat) THEN s
    ELSE IF StartsWith(s, pat)
         THEN ExpandReplacement(repl, pat)
                 \o ReplaceEvery(SubSeq(s, Len(pat) + 1, Len(s)), pat, repl)
    ELSE <<Head(s)>> \o ReplaceEvery(Tail(s), pat, repl)

\* finalMarkdown.replace(placeholder, diagramBlock): a string pattern
\* replaces its first occurrence only
RECURSIVE ReplaceFirst(_, _, _)
ReplaceFirst(s, pat, repl) ==
    IF Len(s) < Len(pat) THEN s
    ELSE IF StartsWith(s, pat)
         THEN ExpandReplacement(repl, pat) \o SubSeq(s, Len(pat) + 1, Len(s))
    ELSE <<Head(s)>> \o ReplaceFirst(Tail(s), pat, repl)

RECURSIVE SkipDigits(_)
SkipDigits(s) ==
    IF s # <<>> /\ IsDigitTok(Head(s)) THEN SkipDigits(Tail(s)) ELSE s

\* The text after a match of /\{\{DIAGRAM_\d+\}\}/ at the start of s, as
\* <<rest>>; <<>> when s does not start with a match
PlaceholderAt(s) ==
    IF Len(s) >= 3 /\ s[1] = "O" /\ IsDigitTok(s[2])
    THEN LET rest == SkipDigits(Tail(s))
         IN  IF rest # <<>> /\ Head(rest) = "C" THEN << Tail(rest) >> ELSE <<>>
    ELSE <<>>

\* finalMarkdown.replace(/\{\{DIAGRAM_\d+\}\}/g, '')
RECURSIVE RemovePlaceholders(_)
RemovePlaceholders(s) ==
    IF s = <<>> THEN <<>>
    ELSE LET m == PlaceholderAt(s)
         IN  IF m # <<>> THEN RemovePlaceholders(m[1])
             ELSE <<Head(s)>> \o RemovePlaceholders(Tail(s))

\* validatedDiagrams.forEach(...)
RECURSIVE SubstituteAll(_, _)
SubstituteAll(md, validated) ==
    IF validated = <<>> THEN md
    ELSE SubstituteAll(
            ReplaceFirst(md, Placeholder(Head(validated).originalPosition),
                         DiagramBlock(Head(validated))),
            Tail(validated))

Assemble(md, validated) == RemovePlaceholders(SubstituteAll(md, validated))

----------------------------------------------------------------------------
(* Inputs of the model                                                     *)

Handlers == {"part_000", "index_js"}

\* Markdown bodies the generative source may return
Bodies == { <<"w", "O", "0", "C", "s", "O", "1", "C", "O", "2", "C">> }

\* Diagram entries of parsed.diagrams: <<>> is a null entry, <<d>> an object
\* (an entry that is no object, such as a number, reads as all-undefined)
Entry(type, code, position) ==
    << [type |-> type, code |-> code, position |-> position] >>

Entries ==
    { <<>>,
      Entry("mermaid", << <<"w">> >>, <<>>),
      Entry("puml", <<>>, <<1>>),
      Entry("dot", << <<"v">> >>, <<0>>) }

RECURSIVE SeqsUpTo(_, _)
SeqsUpTo(S, n) ==
    IF n = 0 THEN { <<>> }
    ELSE LET shorter == SeqsUpTo(S, n - 1)
         IN  shorter \cup { Append(q, e) : q \in shorter, e \in S }

\* The entries that are objects
ObjectEntries == Entries \ { <<>> }

\* The diagrams arrays: every list of objects, and the short lists that
\* end with a null entry (the loop never gets past a null entry)
DiagramLists ==
    LET objects == SeqsUpTo(ObjectEntries, MaxDiagrams)
    IN  objects \cup { Append(q, <<>>) : q \in { l \in objects : Len(l) <= 1 } }

\* Values JSON.parse may return: null, or an object whose markdown is
\* absent (<<>>) or a string and whose diagrams is absent, a non-array
\* or an array
Parsed(md, kind, items) ==
    [isNull |-> FALSE, markdown |-> md, diagrams |-> [kind |-> kind, items |-> items]]

ParsedValues ==
    { [isNull |-> TRUE, markdown |-> <<>>, diagrams |-> [kind |-> "absent", items |-> <<>>]],
      Parsed(<<>>, "absent", <<>>),
      Parsed(<< <<>> >>, "array", <<>>) }
      \cup { Parsed(<<>>, "array", l) : l \in DiagramLists }
      \cup { Parsed(<<b>>, "absent", <<>>) : b \in Bodies }
      \cup { Parsed(<<b>>, "notArray", <<>>) : b \in Bodies }
      \cup { Parsed(<<b>>, "array", l) : b \in Bodies, l \in DiagramLists }

\* Values the second JSON.parse may return for text jsonrepair has mended
RepairedValues == { v \in ParsedValues : Len(v.diagrams.items) <= 1 }

\* Texts a repair call may return (before extractText trims them)
FixTexts == { <<"F", "mermaid", "n", "v", "n", "F">>, <<"s">> }

\* What the PlantUML text renderer may do for one GET
Fetched(threw, ok, status, statusText, text) ==
    [threw |-> threw, ok |-> ok, status |-> status, statusText |-> statusText,
     text |-> text]

FetchOutcomes ==
    { Fetched(TRUE, FALSE, "0", "", <<>>),
      Fetched(FALSE, FALSE, "500", "Internal Server Error", <<>>),
      Fetched(FALSE, TRUE, "200", "OK", <<"w">>),
      Fetched(FALSE, TRUE, "200", "OK", <<"w", "n", "syntax error", "x", "n", "w">>) }

----------------------------------------------------------------------------
(* Pieces of the handler and of validateAndFixDiagrams                     *)

IsMermaidType(type) == type = "mermaid"

\* Mutant: every type other than 'mermaid' is sent to the PlantUML validator
IsPlantUMLTypeFallback(type) == type # "mermaid"

IsPlantUMLType(type) == type \in {"plantuml", "puml", "uml"}

\* Mutant: the for loop stops one entry early
ForContinuesSkipsLast(idx, ds) == idx < Len(ds) - 1

\* for (...; i < diagrams.length; ...)
ForContinues(idx, ds) == idx < Len(ds)

\* while (attempts <= maxRetries && !isValid)
LoopContinues(att, ok) == att <= maxRetries /\ ~ok

\* Mutant: the retry test is off by one (<= for <)
RetriesLeftInclusive(att) == att <= maxRetries

\* Mutant: the retry test is lost, a failed validation always asks for a repair
RetriesLeftAlways(att) == att >= 0

\* Mutant: a failed validation never asks for a repair
RetriesLeftNever(att) == att < 0

\* if (attempts < maxRetries)
RetriesLeft(att) == att < maxRetries

\* Mutant: diagram.position || i, a position of 0 falls back to the index
OriginalPositionFalsy(diagram, idx) ==
    IF diagram.position = <<>> \/ diagram.position[1] = 0
    THEN idx ELSE diagram.position[1]

\* diagram.position ?? i
OriginalPosition(diagram, idx) ==
    IF diagram.position = <<>> THEN idx ELSE diagram.position[1]

\* Mutant: error: lastError, without the test of isValid
ResultRecordKeepsError(diagram, idx, code, ok, err) ==
    [type |-> diagram.type,
     code |-> code,
     originalPosition |-> OriginalPosition(diagram, idx),
     valid |-> ok,
     error |-> err]

\* Mutant: the PlantUML aliases are normalised to 'plantuml' in the result
ResultRecordNormalisesType(diagram, idx, code, ok, err) ==
    [type |-> IF IsPlantUMLType(diagram.type) THEN "plantuml" ELSE diagram.type,
     code |-> code,
     originalPosition |-> OriginalPosition(diagram, idx),
     valid |-> ok,
     error |-> IF ok THEN <<>> ELSE err]

\* results.push({ type, code, originalPosition, valid, error })
ResultRecord(diagram, idx, code, ok, err) ==
    [type |-> diagram.type,
     code |-> code,
     originalPosition |-> OriginalPosition(diagram, idx),
     valid |-> ok,
     error |-> IF ok THEN <<>> ELSE err]

\* !parsed.markdown
MarkdownMissing(v) == v.markdown = <<>> \/ v.markdown[1] = <<>>

\* Mutant: the test of parsed.markdown is lost
CheckedDiagramsNoMarkdownCheck(h, v) ==
    IF v.diagrams.kind = "array" THEN << v.diagrams.items >>
    ELSE IF h = "part_000" THEN << <<>> >>
    ELSE <<>>

\* The diagram list the handler goes on with after its structure checks:
\* <<>> when it answers 502, else <<list>>
CheckedDiagrams(h, v) ==
    IF MarkdownMissing(v) THEN <<>>
    ELSE IF v.diagrams.kind = "array" THEN << v.diagrams.items >>
    ELSE IF h = "part_000" THEN << <<>> >>
    ELSE <<>>

\* res.status(status).json({ error }) and res.json({ markdown })
ErrorResponse(status, msg) ==
    << [status |-> status, error |-> msg, details |-> <<>>, markdown |-> <<>>] >>
OkResponse(md) ==
    << [status |-> 200, error |-> "", details |-> <<>>, markdown |-> <<md>>] >>

\* res.status(500).json({ error: 'Failed to process code file.', details })
\* : part_000 adds the message of the caught exception as details when
\* process.env.NODE_ENV is 'development' (dev); index.js has no details
CaughtResponse(h, dev) ==
    << [status |-> 500, error |-> "Failed to process code file.",
        details |-> IF h = "part_000" /\ dev THEN <<"error.message">> ELSE <<>>,
        markdown |-> <<>>] >>

----------------------------------------------------------------------------
(* The state machine                                                       *)

requestVars == << parsed, i, currentCode, attempts, isValid,
                  lastError, results, pending, llmCalls, valCalls, fixCalls,
                  fixReturned, exitReason, lastValidated, receivedKind,
                  parsedBy, lastFetched, fetchCalls, failedVals, valTotal >>

\* The state of the two studies of a function on its own; the request
\* leaves it alone
frontVars == << state, calls, route, lastAction, shown >>

pureVars == << envelope, extraction, template, validatedDiagrams, finalMarkdowns,
              state, calls, route, lastAction, shown >>

\* const INITIAL_STATE = { status: 'idle', markdown: '', fileName: '', error: '' }
INITIAL_STATE == [status |-> "idle", markdown |-> "", fileName |-> "", error |-> ""]

FrontIdle ==
    /\ state = INITIAL_STATE
    /\ calls = <<>>
    /\ route = "/"
    /\ lastAction = 0
    /\ shown = 0

PureIdle ==
    /\ envelope = <<>>
    /\ extraction = <<>>
    /\ template = <<>>
    /\ validatedDiagrams = <<>>
    /\ finalMarkdowns = <<>>
    /\ FrontIdle

loopVars == << currentCode, attempts, isValid, lastError, pending,
               valCalls, fixCalls, fixReturned, exitReason, lastValidated,
               lastFetched, fetchCalls, failedVals >>

\* parsed.diagrams as handed to validateAndFixDiagrams, and parsed.markdown
diagrams == parsed[1].diagrams.items
markdown == parsed[1].markdown

NotValidated == [code |-> <<>>, result |-> Valid, called |-> FALSE]

FreshRequest ==
    /\ parsed = <<>>
    /\ i = 0
    /\ currentCode = <<>>
    /\ attempts = 0
    /\ isValid = FALSE
    /\ lastError = <<>>
    /\ results = <<>>
    /\ pending = <<>>
    /\ response = <<>>
    /\ llmCalls = 0
    /\ valCalls = 0
    /\ fixCalls = 0
    /\ fixReturned = <<>>
    /\ exitReason = "none"
    /\ lastValidated = NotValidated
    /\ receivedKind = "none"
    /\ parsedBy = "none"
    /\ lastFetched = <<>>
    /\ fetchCalls = 0
    /\ failedVals = 0
    /\ valTotal = 0

Init ==
    /\ handler \in Handlers
    /\ apiKey \in BOOLEAN
    /\ mermaidInitialized = FALSE
    /\ setupAttempted = FALSE
    /\ pc = "idle"
    /\ FreshRequest
    /\ PureIdle

\* The handler answers and returns
Respond(r) ==
    /\ response' = r
    /\ pc' = "done"

\* catch (error) { res.status(500).json({ error: 'Failed to process code file.' }) }
RespondCaught == \E dev \in BOOLEAN : Respond(CaughtResponse(handler, dev))

\* Mutant: the file is looked at before the credential
ReceiveFileFirst(hasFile) ==
    /\ pc = "idle"
    /\ IF ~hasFile
       THEN /\ Respond(ErrorResponse(400, "No code file received."))
            /\ UNCHANGED llmCalls
       ELSE IF ~apiKey
       THEN /\ Respond(ErrorResponse(500, "OpenAI key missing on server."))
            /\ UNCHANGED llmCalls
       ELSE /\ pc' = "awaitAnalyze"
            /\ llmCalls' = llmCalls + 1
            /\ UNCHANGED response
    /\ UNCHANGED << handler, apiKey, mermaidInitialized, parsed, i, results,
                    receivedKind, parsedBy, setupAttempted, valTotal >>
    /\ UNCHANGED loopVars
    /\ UNCHANGED pureVars

\* Entry of the handler up to `await openai.responses.create`
Receive(hasFile) ==
    /\ pc = "idle"
    /\ IF ~apiKey
       THEN /\ Respond(ErrorResponse(500, "OpenAI key missing on server."))
            /\ UNCHANGED llmCalls
       ELSE IF ~hasFile
       THEN /\ Respond(ErrorResponse(400, "No code file received."))
            /\ UNCHANGED llmCalls
       ELSE /\ pc' = "awaitAnalyze"
            /\ llmCalls' = llmCalls + 1
            /\ UNCHANGED response
    /\ UNCHANGED << handler, apiKey, mermaidInitialized, parsed, i, results,
                    receivedKind, parsedBy, setupAttempted, valTotal >>
    /\ UNCHANGED loopVars
    /\ UNCHANGED pureVars

\* openai.responses.create rejects: the handler's catch answers 500
AnalyzeThrows ==
    /\ pc = "awaitAnalyze"
    /\ RespondCaught
    /\ UNCHANGED << handler, apiKey, mermaidInitialized, setupAttempted >>
    /\ UNCHANGED requestVars
    /\ UNCHANGED pureVars

\* The message of the 502 answer for text neither JSON.parse nor jsonrepair accepts
InvalidJsonMessage(h) ==
    IF h = "part_000" THEN "Invalid JSON response from GPT-5.1: e2.message"
    ELSE "Invalid JSON response from GPT-5.1"

\* The message of the 502 answer of the structure check
StructureMessage(h) ==
    IF h = "part_000" THEN "Missing markdown in response from GPT-5.1"
    ELSE "Invalid response structure from GPT-5.1"

\* try { parsed = JSON.parse(jsonText) } catch { parsed = JSON.parse(jsonrepair(jsonText)) }
\* : the repair pass runs only when the strict parse threw
ParsedBy(strictOk) == IF strictOk THEN "strict" ELSE "repair"

\* openai.responses.create resolves with envelope env; JSON.parse accepts
\* the text (strictOk) or only after jsonrepair (repairOk), giving value v.
\* Runs up to the call of validateAndFixDiagrams.
AnalyzeReturns(env, strictOk, repairOk, v) ==
    /\ pc = "awaitAnalyze"
    /\ LET jsonText == extractText(env)
           checked == CheckedDiagrams(handler, v)
       IN  IF jsonText.threw THEN
                RespondCaught /\ UNCHANGED << parsed, receivedKind, parsedBy >>
           ELSE IF jsonText.text = <<>> THEN
                /\ Respond(ErrorResponse(502, "No response returned from GPT-5.1"))
                /\ UNCHANGED << parsed, receivedKind, parsedBy >>
           ELSE IF ~strictOk /\ ~repairOk THEN
                /\ Respond(ErrorResponse(502, InvalidJsonMessage(handler)))
                /\ UNCHANGED << parsed, receivedKind, parsedBy >>
           ELSE IF v.isNull THEN
                /\ RespondCaught
                /\ parsed' = <<v>>
                /\ parsedBy' = ParsedBy(strictOk)
                /\ UNCHANGED receivedKind
           ELSE IF checked = <<>> THEN
                /\ Respond(ErrorResponse(502, StructureMessage(handler)))
                /\ parsed' = <<v>>
                /\ parsedBy' = ParsedBy(strictOk)
                /\ receivedKind' = v.diagrams.kind
           ELSE /\ parsed' = << [v EXCEPT !.diagrams =
                                    [kind |-> "array", items |-> checked[1]]] >>
                /\ parsedBy' = ParsedBy(strictOk)
                /\ receivedKind' = v.diagrams.kind
                /\ pc' = "forHead"
                /\ UNCHANGED response
    /\ UNCHANGED << handler, apiKey, mermaidInitialized, i, results, llmCalls,
                    setupAttempted, valTotal >>
    /\ UNCHANGED loopVars
    /\ UNCHANGED pureVars

\* for (let i = 0; i < diagrams.length; i++) { const diagram = diagrams[i] ...
\* Reading a field of a null entry throws; the handler's catch answers 500.
ForHead ==
    /\ pc = "forHead"
    /\ IF ForContinues(i, diagrams)
       THEN IF diagrams[i + 1] = <<>>
            THEN RespondCaught /\ UNCHANGED currentCode
            ELSE /\ currentCode' = diagrams[i + 1][1].code
                 /\ pc' = "whileHead"
                 /\ UNCHANGED response
       ELSE /\ pc' = "assemble"
            /\ UNCHANGED << response, currentCode >>
    /\ UNCHANGED << handler, apiKey, mermaidInitialized, parsed, i,
                    attempts, isValid, lastError, results, pending, llmCalls,
                    valCalls, fixCalls, fixReturned, exitReason, lastValidated,
                    receivedKind, parsedBy, setupAttempted, lastFetched,
                    fetchCalls, failedVals, valTotal >>
    /\ UNCHANGED pureVars

\* The while test and the dispatch on diagram.type, up to the validator's
\* own await (setupThrows: initMermaid fails part-way in this call)
WhileHead(setupThrows) ==
    /\ pc = "whileHead"
    /\ LET type == diagrams[i + 1][1].type IN
       IF ~LoopContinues(attempts, isValid) THEN
            /\ pc' = "push"
            /\ exitReason' = "condition"
            /\ UNCHANGED << mermaidInitialized, setupAttempted, isValid,
                            pending, valCalls, valTotal >>
       ELSE IF IsMermaidType(type) THEN
            /\ mermaidInitialized' = initMermaid(mermaidInitialized, setupThrows)
            /\ setupAttempted' = TRUE
            /\ pending' = validateMermaidSync(currentCode, mermaidInitialized, setupThrows)
            /\ valCalls' = valCalls + 1
            /\ valTotal' = valTotal + 1
            /\ pc' = "awaitValidate"
            /\ UNCHANGED << isValid, exitReason >>
       ELSE IF IsPlantUMLType(type) THEN
            /\ pending' = validatePlantUMLSync(currentCode)
            /\ valCalls' = valCalls + 1
            /\ valTotal' = valTotal + 1
            /\ pc' = "awaitValidate"
            /\ UNCHANGED << mermaidInitialized, setupAttempted, isValid,
                            exitReason >>
       ELSE /\ isValid' = TRUE
            /\ exitReason' = "unknown"
            /\ pc' = "push"
            /\ UNCHANGED << mermaidInitialized, setupAttempted, pending,
                            valCalls, valTotal >>
    /\ UNCHANGED << handler, apiKey, parsed, i, currentCode,
                    attempts, lastError, results, response, llmCalls, fixCalls,
                    fixReturned, lastValidated,
                    receivedKind, parsedBy, lastFetched, fetchCalls,
                    failedVals >>
    /\ UNCHANGED pureVars

\* The validator reaches its GET to the renderer
ReachesFetch(type) == pending = <<>> /\ ~IsMermaidType(type)

\* The validation the validator resolves with
Validation(type, parseOk, fetched) ==
    IF pending # <<>> THEN pending[1]
    ELSE IF IsMermaidType(type) THEN validateMermaidAsync(parseOk)
    ELSE validatePlantUMLAsync(fetched)

\* `validation = await validate...(currentCode)` resolves; runs up to the
\* repair call's await or to the end of the while loop
ValidateReturns(parseOk, fetched) ==
    /\ pc = "awaitValidate"
    /\ LET validation == Validation(diagrams[i + 1][1].type, parseOk, fetched) IN
       IF validation.valid THEN
            /\ isValid' = TRUE
            /\ exitReason' = "validated"
            /\ pc' = "push"
            /\ UNCHANGED << lastError, llmCalls, fixCalls >>
       ELSE /\ lastError' = validation.error
            /\ UNCHANGED isValid
            /\ IF RetriesLeft(attempts)
               THEN /\ llmCalls' = llmCalls + 1
                    /\ fixCalls' = fixCalls + 1
                    /\ pc' = "awaitFix"
                    /\ UNCHANGED exitReason
               ELSE /\ exitReason' = "exhausted"
                    /\ pc' = "push"
                    /\ UNCHANGED << llmCalls, fixCalls >>
    /\ lastValidated' =
          [code |-> currentCode,
           result |-> Validation(diagrams[i + 1][1].type, parseOk, fetched),
           called |-> TRUE]
    /\ pending' = <<>>
    /\ IF ReachesFetch(diagrams[i + 1][1].type)
       THEN lastFetched' = <<fetched>> /\ fetchCalls' = fetchCalls + 1
       ELSE lastFetched' = <<>> /\ UNCHANGED fetchCalls
    /\ failedVals' =
          IF Validation(diagrams[i + 1][1].type, parseOk, fetched).valid
          THEN failedVals ELSE failedVals + 1
    /\ UNCHANGED << handler, apiKey, mermaidInitialized, parsed, i,
                    currentCode, attempts, results, response, valCalls,
                    fixReturned, receivedKind, parsedBy, setupAttempted,
                    valTotal >>
    /\ UNCHANGED pureVars

\* Mutant: the repaired text is written into the entry, diagram.code = ...
FixReturnsInPlace(env) ==
    /\ pc = "awaitFix"
    /\ LET extracted == extractText(env) IN
       IF extracted.threw
       THEN /\ exitReason' = "repairFailed"
            /\ pc' = "push"
            /\ UNCHANGED << currentCode, attempts, fixReturned, parsed >>
       ELSE /\ fixReturned' = << extracted.text >>
            /\ currentCode' = << StripFences(Trim(extracted.text)) >>
            /\ parsed' = [parsed EXCEPT ![1].diagrams.items[i + 1][1].code =
                                           << StripFences(Trim(extracted.text)) >>]
            /\ attempts' = attempts + 1
            /\ pc' = "whileHead"
            /\ UNCHANGED exitReason
    /\ UNCHANGED << handler, apiKey, mermaidInitialized, i,
                    isValid, lastError, results, pending, response, llmCalls,
                    valCalls, fixCalls, lastValidated,
                    receivedKind, parsedBy, setupAttempted, lastFetched,
                    fetchCalls, failedVals, valTotal >>
    /\ UNCHANGED pureVars

\* The repair call resolves with envelope env
FixReturns(env) ==
    /\ pc = "awaitFix"
    /\ LET extracted == extractText(env) IN
       IF extracted.threw
       THEN /\ exitReason' = "repairFailed"
            /\ pc' = "push"
            /\ UNCHANGED << currentCode, attempts, fixReturned >>
       ELSE /\ fixReturned' = << extracted.text >>
            /\ currentCode' = << StripFences(Trim(extracted.text)) >>
            /\ attempts' = attempts + 1
            /\ pc' = "whileHead"
            /\ UNCHANGED exitReason
    /\ UNCHANGED << handler, apiKey, mermaidInitialized, parsed, i,
                    isValid, lastError, results, pending, response, llmCalls,
                    valCalls, fixCalls, lastValidated,
                    receivedKind, parsedBy, setupAttempted, lastFetched,
                    fetchCalls, failedVals, valTotal >>
    /\ UNCHANGED pureVars

\* Mutant: the repair call is not wrapped in try/catch, its rejection
\* reaches the handler's catch
FixThrowsPropagates ==
    /\ pc = "awaitFix"
    /\ RespondCaught
    /\ UNCHANGED << handler, apiKey, mermaidInitialized, setupAttempted >>
    /\ UNCHANGED requestVars
    /\ UNCHANGED pureVars

\* The repair call rejects: catch (error) { ...; break }
FixThrows ==
    /\ pc = "awaitFix"
    /\ exitReason' = "repairFailed"
    /\ pc' = "push"
    /\ UNCHANGED << handler, apiKey, mermaidInitialized, parsed, i,
                    currentCode, attempts, isValid, lastError, results, pending,
                    response, llmCalls, valCalls, fixCalls, fixReturned,
                    lastValidated,
                    receivedKind, parsedBy, setupAttempted, lastFetched,
                    fetchCalls, failedVals, valTotal >>
    /\ UNCHANGED pureVars

\* results.push({...}), the end of the loop body (its let-variables go out
\* of scope) and the i++ of the for loop
Push ==
    /\ pc = "push"
    /\ results' = Append(results,
                         ResultRecord(diagrams[i + 1][1], i, currentCode,
                                      isValid, lastError))
    /\ i' = i + 1
    /\ currentCode' = <<>>
    /\ attempts' = 0
    /\ isValid' = FALSE
    /\ lastError' = <<>>
    /\ valCalls' = 0
    /\ fixCalls' = 0
    /\ fixReturned' = <<>>
    /\ exitReason' = "none"
    /\ lastValidated' = NotValidated
    /\ lastFetched' = <<>>
    /\ fetchCalls' = 0
    /\ failedVals' = 0
    /\ pc' = "forHead"
    /\ UNCHANGED << handler, apiKey, mermaidInitialized, parsed,
                    pending, response, llmCalls, receivedKind, parsedBy,
                    setupAttempted, valTotal >>
    /\ UNCHANGED pureVars

\* validateAndFixDiagrams returned: re-assembly and res.json({ markdown });
\* calling .replace on an undefined markdown throws into the handler's catch
AssembleAndRespond ==
    /\ pc = "assemble"
    /\ IF markdown = <<>>
       THEN RespondCaught
       ELSE Respond(OkResponse(Assemble(markdown[1], results)))
    /\ UNCHANGED << handler, apiKey, mermaidInitialized, setupAttempted >>
    /\ UNCHANGED requestVars
    /\ UNCHANGED pureVars

AnalysisEnvelopes == Envelopes({ <<"w">> })

Next ==
    \/ \E hasFile \in BOOLEAN : Receive(hasFile)
    \/ AnalyzeThrows
    \/ \E env \in AnalysisEnvelopes, strictOk \in BOOLEAN, repairOk \in BOOLEAN :
          \E v \in IF strictOk THEN ParsedValues ELSE RepairedValues :
              AnalyzeReturns(env, strictOk, repairOk, v)
    \/ ForHead
    \/ \E setupThrows \in BOOLEAN : WhileHead(setupThrows)
    \/ \E parseOk \in BOOLEAN, fetched \in FetchOutcomes :
          ValidateReturns(parseOk, fetched)
    \/ \E env \in Envelopes(FixTexts) : FixReturns(env)
    \/ FixThrows
    \/ Push
    \/ AssembleAndRespond

Spec == Init /\ [][Next]_vars

----------------------------------------------------------------------------
(* extractText on its own: the envelope is drawn at the start, one step    *)
(* calls the function                                                      *)

Chunk(t) == <<t>>
Node(content) == <<content>>

\* Output nodes: a null node, a node without content, a node with a text
\* chunk, with a chunk of empty text, with a null chunk, with a chunk whose
\* text is an object (join prints it as [object Object]), with padded text
StudyNodes ==
    { <<>>,
      Node(<<>>),
      Node(<< Chunk(<<"w">>) >>),
      Node(<< Chunk(<<>>) >>),
      Node(<< <<>> >>),
      Node(<< Chunk(<<"[object Object]">>) >>),
      Node(<< Chunk(<<"s", "v", "n">>) >>) }

\* Choices: a null choice, message.content a string, content absent
StudyChoices == { <<>>, << <<"v">> >>, << <<>> >> }

\* response.output: absent, a value that is no array, an array of nodes
StudyOutputs ==
    { <<>>, <<[isArray |-> FALSE, nodes |-> <<>>]>> }
      \cup { <<[isArray |-> TRUE, nodes |-> l]>> : l \in SeqsUpTo(StudyNodes, MaxNodes) }

\* response.choices: absent, a value that is no array, an array of choices
StudyChoiceLists ==
    { <<>>, <<[isArray |-> FALSE, items |-> <<>>]>> }
      \cup { <<[isArray |-> TRUE, items |-> l]>> : l \in SeqsUpTo(StudyChoices, MaxNodes) }

StudyEnvelopes ==
    { <<>> } \cup { <<[output |-> o, choices |-> c]>> :
                        o \in StudyOutputs, c \in StudyChoiceLists }

\* The request of the main specification does not run
NoRequest ==
    /\ handler = "part_000"
    /\ apiKey = FALSE
    /\ mermaidInitialized = FALSE
    /\ setupAttempted = FALSE
    /\ pc = "idle"
    /\ FreshRequest

ExtractInit ==
    /\ NoRequest
    /\ envelope \in StudyEnvelopes
    /\ extraction = <<>>
    /\ template = <<>>
    /\ validatedDiagrams = <<>>
    /\ finalMarkdowns = <<>>
    /\ FrontIdle

\* const jsonText = extractText(response)
ExtractCall ==
    /\ extraction = <<>>
    /\ extraction' = << extractText(envelope) >>
    /\ UNCHANGED << handler, apiKey, mermaidInitialized, setupAttempted, pc,
                    response, envelope, template, validatedDiagrams,
                    finalMarkdowns >>
    /\ UNCHANGED requestVars
    /\ UNCHANGED frontVars

ExtractNext == ExtractCall

ExtractSpec == ExtractInit /\ [][ExtractNext]_vars

----------------------------------------------------------------------------
(* The re-assembly on its own: the markdown and the list returned by       *)
(* validateAndFixDiagrams are drawn at the start, one step is one run of   *)
(* the synchronous block from `let finalMarkdown` to the clean-up          *)

Repaired(type, code, slot, ok) ==
    [type |-> type, code |-> <<code>>, originalPosition |-> slot,
     valid |-> ok, error |-> IF ok THEN <<>> ELSE << <<"x">> >>]

\* Results of the repair loop: every kind, valid and invalid, code with
\* replacement patterns, code holding the placeholder of another slot, and
\* two results for slot 0
StudyDiagrams ==
    { Repaired("mermaid", <<"w">>, 0, TRUE),
      Repaired("puml", <<"v">>, 1, FALSE),
      Repaired("dot", <<"$", "&">>, 1, TRUE),
      Repaired("mermaid", <<"x", "O", "1", "C">>, 0, TRUE),
      Repaired("plantuml", <<"$", "$", "v">>, 2, FALSE),
      Repaired("uml", <<"v", "v">>, 0, TRUE) }

\* Bodies: both slots, slot 1 only, slot 0 twice, a placeholder nested in
\* another, no placeholder
StudyBodies ==
    { <<"w", "O", "0", "C", "s", "O", "1", "C">>,
      <<"O", "1", "C", "w">>,
      <<"O", "0", "C", "O", "0", "C">>,
      <<"O", "O", "1", "C", "0", "C">>,
      <<"w">> }

AssemblerInit ==
    /\ NoRequest
    /\ envelope = <<>>
    /\ extraction = <<>>
    /\ template \in StudyBodies
    /\ validatedDiagrams \in SeqsUpTo(StudyDiagrams, MaxDiagrams)
    /\ finalMarkdowns = <<>>
    /\ FrontIdle

\* Mutant: the block works in place, parsed.markdown = parsed.markdown.replace(...)
AssembleRunInPlace ==
    /\ Len(finalMarkdowns) < MaxRuns
    /\ finalMarkdowns' = Append(finalMarkdowns, Assemble(template, validatedDiagrams))
    /\ template' = Assemble(template, validatedDiagrams)
    /\ UNCHANGED << handler, apiKey, mermaidInitialized, setupAttempted, pc,
                    response, envelope, extraction, validatedDiagrams >>
    /\ UNCHANGED requestVars
    /\ UNCHANGED frontVars

\* let finalMarkdown = parsed.markdown; validatedDiagrams.forEach(...);
\* finalMarkdown = finalMarkdown.replace(/\{\{DIAGRAM_\d+\}\}/g, '')
AssembleRun ==
    /\ Len(finalMarkdowns) < MaxRuns
    /\ finalMarkdowns' = Append(finalMarkdowns, Assemble(template, validatedDiagrams))
    /\ UNCHANGED << handler, apiKey, mermaidInitialized, setupAttempted, pc,
                    response, envelope, extraction, template,
                    validatedDiagrams >>
    /\ UNCHANGED requestVars
    /\ UNCHANGED frontVars

AssemblerNext == AssembleRun

AssemblerSpec == AssemblerInit /\ [][AssemblerNext]_vars

----------------------------------------------------------------------------
(* validatePlantUML on its own: the definition is drawn at the start, one  *)
(* step is one call, with whatever the renderer does for its GET           *)

\* Definitions: undefined, and texts of blanks, newlines and other characters
StudyDefinitions ==
    { <<>> } \cup { <<t>> : t \in SeqsUpTo({"w", "x", "s", "n"}, MaxDefinition) }

\* What the renderer may do: the GET throws, answers with a failure status,
\* or answers with a text that holds none, one or several error indicators
StudyFetches ==
    { Fetched(TRUE, FALSE, "0", "", <<>>),
      Fetched(FALSE, FALSE, "500", "Internal Server Error", <<>>),
      Fetched(FALSE, FALSE, "404", "Not Found", <<"Error", "x">>),
      Fetched(FALSE, TRUE, "200", "OK", <<>>),
      Fetched(FALSE, TRUE, "200", "OK", <<"w">>),
      Fetched(FALSE, TRUE, "200", "OK", <<"error">>),
      Fetched(FALSE, TRUE, "200", "OK", <<"cannot include", "x">>),
      Fetched(FALSE, TRUE, "200", "OK", <<"w", "n", "syntax error", "x", "n", "w">>),
      Fetched(FALSE, TRUE, "200", "OK", <<"s", "w", "Error">>),
      Fetched(FALSE, TRUE, "200", "OK", <<"^^^^^">>),
      Fetched(FALSE, TRUE, "200", "OK", <<"^^^^^", "n", "error", "s">>),
      Fetched(FALSE, TRUE, "200", "OK", <<"x", "n", "^^^^^", "n", "Error", "s", "x">>) }

PlantUMLInit ==
    /\ handler = "part_000"
    /\ apiKey = FALSE
    /\ mermaidInitialized = FALSE
    /\ setupAttempted = FALSE
    /\ pc = "idle"
    /\ parsed = <<>>
    /\ i = 0
    /\ currentCode \in StudyDefinitions
    /\ attempts = 0
    /\ isValid = FALSE
    /\ lastError = <<>>
    /\ results = <<>>
    /\ pending = <<>>
    /\ response = <<>>
    /\ llmCalls = 0
    /\ valCalls = 0
    /\ fixCalls = 0
    /\ fixReturned = <<>>
    /\ exitReason = "none"
    /\ lastValidated = NotValidated
    /\ receivedKind = "none"
    /\ parsedBy = "none"
    /\ lastFetched = <<>>
    /\ fetchCalls = 0
    /\ failedVals = 0
    /\ valTotal = 0
    /\ PureIdle

\* validation = await validatePlantUML(currentCode)
ValidatePlantUMLCall(fetched) ==
    /\ ~lastValidated.called
    /\ LET decided == validatePlantUMLSync(currentCode) IN
       IF decided # <<>>
       THEN /\ lastValidated' =
                  [code |-> currentCode, result |-> decided[1], called |-> TRUE]
            /\ UNCHANGED << lastFetched, fetchCalls >>
       ELSE /\ lastValidated' =
                  [code |-> currentCode, result |-> validatePlantUMLAsync(fetched),
                   called |-> TRUE]
            /\ lastFetched' = <<fetched>>
            /\ fetchCalls' = fetchCalls + 1
    /\ valCalls' = valCalls + 1
    /\ valTotal' = valTotal + 1
    /\ UNCHANGED << handler, apiKey, mermaidInitialized, setupAttempted, pc,
                    parsed, i, currentCode, attempts, isValid, lastError,
                    results, pending, response, llmCalls, fixCalls, fixReturned,
                    exitReason, receivedKind, parsedBy, failedVals >>
    /\ UNCHANGED pureVars

PlantUMLNext == \E fetched \in StudyFetches : ValidatePlantUMLCall(fetched)

PlantUMLSpec == PlantUMLInit /\ [][PlantUMLNext]_vars

----------------------------------------------------------------------------
(* Properties                                                              *)

CheckedKinds == {"mermaid", "plantuml", "puml", "uml"}

InLoop == pc \in {"whileHead", "awaitValidate", "awaitFix", "push"}

Last(seq) == seq[Len(seq)]

Answered(status) == response # <<>> /\ response[1].status = status

\* The type of the diagram the loop is working on
CurrentType == diagrams[i + 1][1].type

\* C1: a diagram of a checked kind whose validations all fail and whose
\* repair calls all succeed gets exactly maxRetries repair calls, and its
\* result is invalid with the fence-stripped text of the last repair response
C1_ExhaustedAfterMaxRetries ==
    [][ (/\ pc = "push"
         /\ CurrentType \in CheckedKinds
         /\ ~isValid
         /\ exitReason # "repairFailed")
        => /\ fixCalls = maxRetries
           /\ fixReturned # <<>>
           /\ Last(results').valid = FALSE
           /\ Last(results').code = << StripFences(fixReturned[1]) >> ]_vars

C1_Witness ==
    /\ pc = "push"
    /\ CurrentType \in CheckedKinds
    /\ ~isValid
    /\ exitReason = "exhausted"
    /\ fixCalls = maxRetries
    /\ fixReturned = << <<"F", "mermaid", "n", "v", "n", "F">> >>
    /\ currentCode = << <<"v">> >>

\* C2: a diagram of unknown type is recorded valid with its original code
\* after no validator call and no repair call
C2_UnknownKindSkipped ==
    [][ (pc = "push" /\ CurrentType \notin CheckedKinds)
        => /\ valCalls = 0
           /\ fixCalls = 0
           /\ ~lastValidated.called
           /\ llmCalls' = llmCalls
           /\ Last(results').valid
           /\ Last(results').error = <<>>
           /\ Last(results').code = diagrams[i + 1][1].code ]_vars

C2_Witness ==
    /\ pc = "forHead"
    /\ i = 1
    /\ results[1].type = "dot"
    /\ results[1].valid
    /\ results[1].code = << <<"v">> >>
    /\ llmCalls = 1

\* C3: a result is valid exactly when the loop ended on a successful
\* validation or on an unknown kind, and its error is null exactly when it
\* is valid; results change only by pushing one such record
C3_ValidIffNoError ==
    [][ /\ \A k \in 1..Len(results') :
              (results'[k].error = <<>>) <=> results'[k].valid
        /\ results' # results
              => /\ pc = "push"
                 /\ Len(results') = Len(results) + 1
                 /\ SubSeq(results', 1, Len(results)) = results
                 /\ Last(results').valid <=> exitReason \in {"validated", "unknown"} ]_vars

C3_Witness ==
    /\ pc = "forHead"
    /\ i = 1
    /\ results[1].valid
    /\ results[1].error = <<>>
    /\ results[1].code # diagrams[1][1].code

\* C4: when a repair call fails, the diagram is recorded invalid with the
\* text that last failed validation and that validation's error, the loop
\* goes on to the next diagram and no response is sent
C4_RepairFailureIsLocal ==
    [][ /\ (pc = "awaitFix" /\ attempts' = attempts)
              => /\ pc' = "push"
                 /\ exitReason' = "repairFailed"
                 /\ response' = <<>>
        /\ (pc = "push" /\ exitReason = "repairFailed")
              => /\ ~lastValidated.result.valid
                 /\ Last(results').valid = FALSE
                 /\ Last(results').code = lastValidated.code
                 /\ Last(results').error = lastValidated.result.error
                 /\ Last(results').error # <<>>
                 /\ i' = i + 1
                 /\ pc' = "forHead"
                 /\ response' = <<>> ]_vars

C4_Witness ==
    /\ pc = "awaitValidate"
    /\ i = 1
    /\ ~results[1].valid
    /\ results[1].code = diagrams[1][1].code
    /\ llmCalls = 2

\* A document with a markdown body and a diagrams list has been parsed
DocumentParsed ==
    /\ parsed # <<>>
    /\ ~parsed[1].isNull
    /\ parsed[1].markdown \notin { <<>>, << <<>> >> }
    /\ parsed[1].diagrams.kind = "array"

\* C5: once a document with a markdown body and a diagrams list is parsed,
\* the request ends with a success response whatever happens to a diagram
C5_DiagramProblemsNeverFatal ==
    (pc = "done" /\ DocumentParsed) => Answered(200)

\* The rank of the validate/repair loop of one diagram
LoopRank ==
    CASE pc = "whileHead"     -> 3 * (maxRetries + 1 - valCalls) + 2
      [] pc = "awaitValidate" -> 3 * (maxRetries + 1 - valCalls) + 4
      [] pc = "awaitFix"      -> 3 * (maxRetries + 1 - valCalls) + 3
      [] pc = "push"          -> 1
      [] OTHER                -> 0

\* C6: every step of the loop of one diagram lowers a non-negative rank, so
\* the loop ends; it makes at most maxRetries + 1 validator calls and
\* maxRetries repair calls, and it is left only by pushing a result
C6_LoopTerminates ==
    [][ InLoop
        => /\ LoopRank' < LoopRank
           /\ LoopRank' >= 0
           /\ valCalls <= maxRetries + 1 /\ valCalls' <= maxRetries + 1
           /\ fixCalls <= maxRetries /\ fixCalls' <= maxRetries
           /\ \/ pc' \in {"whileHead", "awaitValidate", "awaitFix", "push"}
              \/ pc = "push" /\ Len(results') = Len(results) + 1 ]_vars

C6_Witness ==
    /\ pc = "push"
    /\ valCalls = maxRetries + 1
    /\ fixCalls = maxRetries
    /\ exitReason = "exhausted"

\* C7: while a diagram is in its loop every earlier diagram has its result
\* recorded, validator and repair calls belong to the diagram in the loop,
\* and assembly starts only when every diagram has a result
C7_SequentialDiagrams ==
    /\ InLoop => Len(results) = i /\ i < Len(diagrams)
    /\ (valCalls > 0 \/ fixCalls > 0 \/ lastValidated.called \/ pending # <<>>)
          => InLoop
    /\ (pc = "assemble" \/ Answered(200))
          => Len(results) = Len(diagrams) /\ i = Len(diagrams)

C7_Witness ==
    /\ pc = "awaitFix"
    /\ i = 1
    /\ Len(results) = 1
    /\ Len(diagrams) = 2
    /\ results[1].code # diagrams[1][1].code

\* C8: the results are one per input diagram, in input order, each with
\* the type of its input entry
C8_OneResultPerDiagram ==
    /\ \A k \in 1..Len(results) : results[k].type = diagrams[k][1].type
    /\ (pc = "assemble" \/ Answered(200)) => Len(results) = Len(diagrams)

C8_Witness ==
    /\ pc = "assemble"
    /\ Len(results) = 2
    /\ results[1].type = "puml"
    /\ results[1].code # diagrams[1][1].code
    /\ results[2].type = "mermaid"

\* C9: when the parsed object has a markdown field and its diagrams field
\* is absent or no array, the request succeeds without any validator or
\* repair call and answers the body with its placeholders removed
C9_MissingDiagramsIsEmptyList ==
    (/\ receivedKind \in {"absent", "notArray"}
     /\ parsed[1].markdown \notin { <<>>, << <<>> >> })
    => /\ valCalls = 0 /\ fixCalls = 0 /\ results = <<>> /\ llmCalls = 1
       /\ pc = "done"
             => /\ Answered(200)
                /\ response[1].markdown =
                      << RemovePlaceholders(parsed[1].markdown[1]) >>

\* No document with a markdown field has been parsed
NoDocument ==
    \/ parsed = <<>>
    \/ parsed[1].isNull
    \/ parsed[1].markdown \in { <<>>, << <<>> >> }

\* C10: without a parsed document that has a markdown field the request
\* never reaches the repair loop or the assembly and ends with a failure
\* response; with no API key no call to the generative source is made
C10_DocumentFailuresStopEarly ==
    /\ ~apiKey => llmCalls = 0 /\ pc \in {"idle", "done"}
    /\ NoDocument
          => /\ pc \in {"idle", "awaitAnalyze", "done"}
             /\ valCalls = 0 /\ fixCalls = 0 /\ ~lastValidated.called
             /\ results = <<>> /\ i = 0
             /\ llmCalls <= 1
             /\ pc = "done"
                   => /\ response[1].status \in {400, 500, 502}
                      /\ response[1].markdown = <<>>

C10_Witness ==
    /\ pc = "done"
    /\ parsed # <<>>
    /\ ~parsed[1].isNull
    /\ parsed[1].markdown = <<>>
    /\ parsed[1].diagrams.kind = "array"
    /\ Len(parsed[1].diagrams.items) = 2
    /\ Answered(502)
    /\ llmCalls = 1

\* C11: text the strict JSON.parse accepts is parsed without the repair
\* pass, and when it is a document with a markdown body and a diagrams array
\* the request ends with a success response after processing as many
\* diagrams as the array holds
C11_StrictJsonYieldsAllDiagrams ==
    (/\ parsedBy = "strict"
     /\ DocumentParsed
     /\ receivedKind = "array"
     /\ pc = "done")
        => /\ Answered(200)
           /\ Len(results) = Len(diagrams)

\* C18: the slot index of a result is the position field of its entry when
\* present (0 included) and the index of the entry in the list when absent
C18_SlotIndexIsPositionOrIndex ==
    \A k \in 1..Len(results) :
        results[k].originalPosition =
            IF diagrams[k][1].position = <<>> THEN k - 1
            ELSE diagrams[k][1].position[1]

C18_Witness ==
    /\ Len(results) = 2
    /\ diagrams[1][1].position = <<>>
    /\ results[1].originalPosition = 0
    /\ diagrams[2][1].position = <<0>>
    /\ results[2].originalPosition = 0

\* The text handed to the validator is a string that is empty after trimming
EmptyText == currentCode # <<>> /\ Trim(currentCode[1]) = <<>>

\* A step in which validateMermaid or validatePlantUML is called
ValidatorCalled == pc = "whileHead" /\ pc' = "awaitValidate"

\* The fixed message of the validator of the current diagram
EmptyMessage ==
    IF IsMermaidType(CurrentType) THEN <<"Empty Mermaid definition">>
    ELSE <<"Empty PlantUML definition">>

\* A validation decided before the validator's await is what the validator
\* resolves with: neither mermaid.parse nor fetch is reached
DecidedWithoutNetwork ==
    (pc = "awaitValidate" /\ pending # <<>>)
        => lastValidated'.result = pending[1]

SetupRuns ==
    /\ ValidatorCalled
    /\ IsMermaidType(CurrentType)
    /\ ~mermaidInitialized

\* C20: the set-up of the Mermaid environment runs once: whenever it runs,
\* no earlier call has run it, also after an attempt that threw part-way
C20_SetupExactlyOnce ==
    [][ SetupRuns => ~setupAttempted ]_vars

\* C12: extractText returns a string for every envelope and never throws
C12_ExtractTextNeverThrows ==
    extraction # <<>> => ~extraction[1].threw

\* The envelope has an output list that yields no text and a choices list
\* whose items can all be read
OutputWithoutText ==
    /\ envelope # <<>>
    /\ envelope[1].output # <<>>
    /\ envelope[1].output[1].isArray
    /\ ~HasNull(envelope[1].output[1].nodes)
    /\ ~HasNull(FlatContent(envelope[1].output[1].nodes))
    /\ ChunkTexts(FlatContent(envelope[1].output[1].nodes)) = <<>>
    /\ envelope[1].choices # <<>>
    /\ envelope[1].choices[1].isArray
    /\ ~HasNull(envelope[1].choices[1].items)

\* C13: when the output shape yields no text, extractText returns the text
\* of the choices shape
C13_ChoicesTriedAfterEmptyOutput ==
    (extraction # <<>> /\ OutputWithoutText)
        => extraction[1] =
              Returned(Trim(JoinLines(ChoiceTexts(envelope[1].choices[1].items))))

\* pat occurs in s
RECURSIVE Occurs(_, _)
Occurs(pat, s) ==
    IF Len(s) < Len(pat) THEN FALSE
    ELSE StartsWith(s, pat) \/ Occurs(pat, Tail(s))

\* The number of places of s where pat starts
RECURSIVE Count(_, _)
Count(pat, s) ==
    IF Len(s) < Len(pat) THEN 0
    ELSE (IF StartsWith(s, pat) THEN 1 ELSE 0) + Count(pat, Tail(s))

\* A fenced block tagged with the diagram's own kind around its exact code
OwnKindBlock(diagram) ==
    <<"F", diagram.type, "n">> \o diagram.code[1] \o <<"n", "F">>

\* C14: the placeholder of a repaired diagram is replaced with a fenced
\* block tagged with the diagram's own kind that holds exactly its code
C14_BlockHasOwnKindAndExactCode ==
    (finalMarkdowns # <<>> /\ Len(validatedDiagrams) = 1)
        => LET diagram == validatedDiagrams[1] IN
           Occurs(Placeholder(diagram.originalPosition), template)
              => Occurs(OwnKindBlock(diagram), finalMarkdowns[1])

\* Some text matching {{DIAGRAM_<digits>}} occurs in s
RECURSIVE HasPlaceholder(_)
HasPlaceholder(s) ==
    IF s = <<>> THEN FALSE
    ELSE PlaceholderAt(s) # <<>> \/ HasPlaceholder(Tail(s))

\* C15: the assembled markdown holds no placeholder
C15_NoPlaceholderLeft ==
    \A k \in 1..Len(finalMarkdowns) : ~HasPlaceholder(finalMarkdowns[k])

\* The diagrams of the list have pairwise different slots
DistinctSlots ==
    \A j, k \in 1..Len(validatedDiagrams) :
        validatedDiagrams[j].originalPosition = validatedDiagrams[k].originalPosition
            => j = k

\* No code of the list holds a dollar sign
NoDollarInCode ==
    \A k \in 1..Len(validatedDiagrams) : ~Includes(validatedDiagrams[k].code[1], "$")

\* C16: the rendering of a diagram whose placeholder is in the body occurs
\* once in the output, and the rendering of a diagram whose placeholder is
\* not in the body occurs nowhere in it (shown for codes without a dollar
\* sign, which may also hold the placeholder of another diagram)
C16_ReferencedOnceUnreferencedNever ==
    (finalMarkdowns # <<>> /\ DistinctSlots /\ NoDollarInCode)
        => \A k \in 1..Len(validatedDiagrams) :
              LET diagram == validatedDiagrams[k] IN
              IF Occurs(Placeholder(diagram.originalPosition), template)
              THEN Count(DiagramBlock(diagram), finalMarkdowns[1]) = 1
              ELSE ~Occurs(DiagramBlock(diagram), finalMarkdowns[1])

C22_RepairPerFailedValidation ==
    pc = "push" => fixCalls = failedVals

\* C22 amended: a failed validation is followed by one repair call while
\* fewer than maxRetries were sent for the diagram and by none afterwards,
\* so the two numbers are equal except for an exhausted diagram, which has
\* one failed validation more than repair calls
C22_RepairPerFailedValidationButLast ==
    [][ /\ (pc = "awaitValidate" /\ failedVals' = failedVals + 1)
            => IF fixCalls < maxRetries
               THEN /\ fixCalls' = fixCalls + 1
                    /\ llmCalls' = llmCalls + 1
                    /\ pc' = "awaitFix"
               ELSE /\ fixCalls' = fixCalls
                    /\ llmCalls' = llmCalls
                    /\ pc' = "push"
        /\ (pc = "awaitValidate" /\ failedVals' = failedVals)
            => fixCalls' = fixCalls /\ llmCalls' = llmCalls
        /\ pc = "push"
            => fixCalls = failedVals - (IF exitReason = "exhausted" THEN 1 ELSE 0)
     ]_vars

C22_Witness ==
    /\ pc = "push"
    /\ exitReason = "exhausted"
    /\ failedVals = maxRetries + 1
    /\ fixCalls = maxRetries

\* C23: a failure response carries one of the fixed messages and nothing of
\* a caught exception
GenericMessages ==
    { "OpenAI key missing on server.",
      "No code file received.",
      "Failed to process code file.",
      "No response returned from GPT-5.1",
      "Invalid JSON response from GPT-5.1",
      "Missing markdown in response from GPT-5.1",
      "Invalid response structure from GPT-5.1" }

C23_NoExceptionTextInResponse ==
    (pc = "done" /\ response[1].status # 200)
        => /\ response[1].error \in GenericMessages
           /\ response[1].details = <<>>

C25_ValidDescribesEmittedCode ==
    [][ pc = "push"
            => IF CurrentType \in CheckedKinds
               THEN /\ lastValidated.called
                    /\ Last(results').code = lastValidated.code
                    /\ Last(results').valid <=> lastValidated.result.valid
               ELSE /\ ~lastValidated.called
                    /\ Last(results').code = diagrams[i + 1][1].code ]_vars

C25_Witness ==
    /\ pc = "push"
    /\ isValid
    /\ fixCalls = maxRetries
    /\ fixReturned # <<>>
    /\ currentCode = << StripFences(fixReturned[1]) >>
    /\ lastValidated.code = currentCode
    /\ lastValidated.result.valid

\* C26: a request makes at most 1 + maxRetries * n calls to the generative
\* source and at most (maxRetries + 1) * n validator calls, n the number of
\* diagrams of its document (none without a document)
C26_CallBudget ==
    LET n == IF parsed = <<>> THEN 0 ELSE Len(diagrams) IN
    /\ llmCalls <= 1 + maxRetries * n
    /\ valTotal <= (maxRetries + 1) * n
    /\ InLoop => /\ llmCalls <= 1 + maxRetries * i + fixCalls
                 /\ valTotal <= (maxRetries + 1) * i + valCalls

C26_Witness ==
    /\ Answered(200)
    /\ Len(diagrams) = 2
    /\ llmCalls = 1 + maxRetries * 2
    /\ valTotal = (maxRetries + 1) * 2

\* The renderer failed for the validator call that just resolved
RendererFailed(f) == f # <<>> /\ (f[1].threw \/ ~f[1].ok)

\* C27: a failure of the renderer comes back from validatePlantUML as an
\* invalid validation, not as an exception, and the loop answers it like a
\* syntax error: with a repair call while attempts < maxRetries
C27_RendererFailureIsInvalid ==
    [][ (pc = "awaitValidate" /\ RendererFailed(lastFetched'))
            => /\ ~lastValidated'.result.valid
               /\ lastValidated'.result.error # <<>>
               /\ response' = <<>>
               /\ IF attempts < maxRetries
                  THEN /\ pc' = "awaitFix"
                       /\ fixCalls' = fixCalls + 1
                       /\ llmCalls' = llmCalls + 1
                  ELSE pc' = "push" ]_vars

C27_Witness ==
    /\ pc = "awaitFix"
    /\ RendererFailed(lastFetched)
    /\ lastFetched[1].threw
    /\ ~lastValidated.result.valid
    /\ fixCalls = maxRetries

\* The status of an answer goes with its reason
StatusMatchesReason(r) ==
    CASE r.status = 200 -> r.markdown # <<>> /\ r.error = ""
      [] r.status = 400 -> r.error = "No code file received."
      [] r.status = 500 -> r.error \in {"OpenAI key missing on server.",
                                        "Failed to process code file."}
      [] r.status = 502 -> r.error \in {"No response returned from GPT-5.1",
                                        InvalidJsonMessage(handler),
                                        StructureMessage(handler)}
      [] OTHER -> FALSE

\* C29: a request answers once, when it ends, with status 200, 400, 500 or
\* 502 for the matching reason; a missing credential is answered before the
\* file is looked at, and 200 is sent only when every diagram has a result
C29_OneResponseWithStatus ==
    [][ /\ response # <<>> => response' = response
        /\ pc' = "done" <=> response' # <<>>
        /\ response' # <<>>
              => /\ StatusMatchesReason(response'[1])
                 /\ ~apiKey => response'[1].error = "OpenAI key missing on server."
                 /\ response'[1].error = "OpenAI key missing on server." => ~apiKey
                 /\ response'[1].status = 200
                       => /\ Len(results') = Len(diagrams')
                          /\ i' = Len(diagrams')
                          /\ pc = "assemble" ]_vars

C29_Witness ==
    /\ pc = "done"
    /\ apiKey
    /\ Answered(200)
    /\ response[1].error = ""
    /\ Len(results) = 2
    /\ valTotal > 0

\* The four texts validatePlantUML looks for in a rendering
Indicators == {"cannot include", "syntax error", "Error", "^^^^^"}

\* C21: for a non-empty definition validatePlantUML sends one GET; it
\* answers valid exactly when the status is a success and the text holds no
\* indicator, answers a failure status with an error made of the status
\* code and reason, and an indicator with a non-empty error
C21_PlantUMLVerdict ==
    (/\ lastValidated.called
     /\ currentCode # <<>>
     /\ Trim(currentCode[1]) # <<>>)
        => /\ fetchCalls = 1
           /\ lastFetched # <<>>
           /\ LET f == lastFetched[1]
                  r == lastValidated.result
                  hit == \E t \in Indicators : Includes(f.text, t)
              IN  /\ r.valid <=> (~f.threw /\ f.ok /\ ~hit)
                  /\ (~f.threw /\ ~f.ok)
                        => r = Invalid(<<"HTTP", f.status, ":", f.statusText>>)
                  /\ (~f.threw /\ f.ok /\ hit)
                        => ~r.valid /\ r.error # <<>> /\ r.error[1] # <<>>

C21_Witness ==
    /\ lastValidated.called
    /\ currentCode = << <<"s", "w">> >>
    /\ fetchCalls = 1
    /\ lastFetched # <<>>
    /\ lastFetched[1].text = <<"^^^^^">>
    /\ lastValidated.result = Invalid(<<"PlantUML syntax error detected">>)

\* The r-th diagram (from 0) of the list whose slot is k: <<>> or <<diagram>>
RECURSIVE NthWithSlot(_, _, _)
NthWithSlot(list, k, r) ==
    IF list = <<>> THEN <<>>
    ELSE IF Head(list).originalPosition = k
         THEN IF r = 0 THEN << Head(list) >>
              ELSE NthWithSlot(Tail(list), k, r - 1)
    ELSE NthWithSlot(Tail(list), k, r)

\* One pass over the body from left to right: the occurrence number r of
\* the placeholder of slot k becomes the rendering of the r-th diagram of
\* slot k, or nothing when the list has no such diagram
RECURSIVE OnePass(_, _, _)
OnePass(s, list, seen) ==
    IF s = <<>> THEN <<>>
    ELSE IF Len(s) >= 3 /\ s[1] = "O" /\ IsDigitTok(s[2]) /\ s[3] = "C"
         THEN LET k == CHOOSE n \in 0..9 : Digits[n + 1] = s[2]
                  d == NthWithSlot(list, k, seen[k])
              IN  (IF d = <<>> THEN <<>> ELSE DiagramBlock(d[1]))
                     \o OnePass(SubSeq(s, 4, Len(s)), list,
                                [seen EXCEPT ![k] = @ + 1])
    ELSE <<Head(s)>> \o OnePass(Tail(s), list, seen)

\* No code of the list holds a replacement pattern or a placeholder, and
\* no placeholder of the body is nested in another
PlainInputs ==
    /\ NoDollarInCode
    /\ \A k \in 1..Len(validatedDiagrams) :
          ~Includes(validatedDiagrams[k].code[1], "O")
    /\ ~Occurs(<<"O", "O">>, template)

\* C28: with repeated placeholders and diagrams sharing a slot, the k-th
\* diagram of a slot takes the k-th occurrence of its placeholder, what is
\* left over is removed, and no diagram is inserted at two places
C28_FirstOccurrencePerDiagram ==
    \A n \in 1..Len(finalMarkdowns) :
        /\ Count(<<"F">>, finalMarkdowns[n]) <= 2 * Len(validatedDiagrams)
        /\ PlainInputs
              => finalMarkdowns[n] =
                    OnePass(template, validatedDiagrams, [k \in 0..9 |-> 0])

C28_Witness ==
    /\ template = <<"O", "0", "C", "O", "0", "C">>
    /\ validatedDiagrams = << Repaired("uml", <<"v", "v">>, 0, TRUE),
                              Repaired("mermaid", <<"w">>, 0, TRUE) >>
    /\ finalMarkdowns # <<>>
    /\ finalMarkdowns[1] =
          <<"F", "plantuml", "n", "v", "v", "n", "F",
            "F", "mermaid", "n", "w", "n", "F">>

-----------------------------------------------------------------------------
\* The frontend: AnalysisProvider and the two screens that drive it.

\* analyzeFile calls of one session.
MaxCalls == 2

Files == {"a.js", "b.js"}

\* What the await of fetch (and of response.json()) gives one call: fetch
\* rejects, or a response with its ok flag and the fields of its JSON body
\* ("" for a field that is absent or empty, or a body that is not JSON).
Reply(threw, ok, e, d, m) ==
    [threw |-> threw, ok |-> ok, error |-> e, details |-> d, markdown |-> m]

Replies ==
    {Reply(TRUE, FALSE, "", "", "")}
      \cup {Reply(FALSE, FALSE, e, d, "") :
                e \in {"", "Failed to process code file."},
                d \in {"", "error.message"}}
      \cup {Reply(FALSE, TRUE, "", "", m) : m \in {"", "dossier"}}

\* setState({ status: 'loading', markdown: '', fileName: file.name, error: '' })
Loading(file) ==
    [status |-> "loading", markdown |-> "", fileName |-> file, error |-> ""]

\* errorData.error || errorData.details || errorMessage
ErrorMessage(reply) ==
    IF reply.error # "" THEN reply.error
    ELSE IF reply.details # "" THEN reply.details
    ELSE "Syntra could not reach the analyst core."

\* The state the continuation of analyzeFile(file) sets once its reply is in.
Settled(file, reply) ==
    IF reply.threw
      THEN [status |-> "error", markdown |-> "", fileName |-> file,
            error |-> "Failed to fetch"]
    ELSE IF ~reply.ok
      THEN [status |-> "error", markdown |-> "", fileName |-> file,
            error |-> ErrorMessage(reply)]
    ELSE IF reply.markdown = ""
      THEN [status |-> "error", markdown |-> "", fileName |-> file,
            error |-> "The analyst returned an empty dossier."]
    ELSE [status |-> "ready", markdown |-> reply.markdown, fileName |-> file,
          error |-> ""]

backendIdle ==
    /\ NoRequest
    /\ envelope = <<>>
    /\ extraction = <<>>
    /\ template = <<>>
    /\ validatedDiagrams = <<>>
    /\ finalMarkdowns = <<>>

backendVars == << handler, apiKey, mermaidInitialized, setupAttempted, pc,
                  response, envelope, extraction, template, validatedDiagrams,
                  finalMarkdowns >>

\* The provider is mounted with useState(INITIAL_STATE); the browser opens
\* either route.
FrontendInit ==
    /\ backendIdle
    /\ state = INITIAL_STATE
    /\ calls = <<>>
    /\ route \in {"/", "/report"}
    /\ lastAction = 0
    /\ shown = 0

\* UploadScreen.handleFileChange: no file picked returns; otherwise
\* analyzeFile(file) runs up to its await of fetch, then navigate('/report').
HandleFileChange(file) ==
    /\ route = "/"
    /\ Len(calls) < MaxCalls
    /\ IF file = <<>>
         THEN UNCHANGED frontVars
         ELSE /\ state' = Loading(file[1])
              /\ calls' = Append(calls, [file |-> file[1], pending |-> TRUE])
              /\ route' = "/report"
              /\ lastAction' = Len(calls) + 1
              /\ shown' = Len(calls) + 1
    /\ UNCHANGED backendVars
    /\ UNCHANGED requestVars

\* The rest of analyzeFile, after its awaits: setState of 'ready' or 'error'.
AnalyzeFileSettles(c, reply) ==
    /\ c \in 1..Len(calls)
    /\ calls[c].pending
    /\ state' = Settled(calls[c].file, reply)
    /\ calls' = [calls EXCEPT ![c].pending = FALSE]
    /\ shown' = c
    /\ UNCHANGED << route, lastAction >>
    /\ UNCHANGED backendVars
    /\ UNCHANGED requestVars

\* ReportScreen.handleUploadNew: reset(); navigate('/')
HandleUploadNew ==
    /\ route = "/report"
    /\ state' = INITIAL_STATE
    /\ route' = "/"
    /\ lastAction' = 0
    /\ shown' = 0
    /\ UNCHANGED calls
    /\ UNCHANGED backendVars
    /\ UNCHANGED requestVars

\* ReportScreen's effect: if (state.status === 'idle') navigate('/')
RedirectWhenIdle ==
    /\ route = "/report"
    /\ state.status = "idle"
    /\ route' = "/"
    /\ UNCHANGED << state, calls, lastAction, shown >>
    /\ UNCHANGED backendVars
    /\ UNCHANGED requestVars

FrontendNext ==
    \/ \E file \in {<<>>} \cup {<<f>> : f \in Files} : HandleFileChange(file)
    \/ \E c \in 1..MaxCalls, reply \in Replies : AnalyzeFileSettles(c, reply)
    \/ HandleUploadNew
    \/ RedirectWhenIdle

FrontendSpec == FrontendInit /\ [][FrontendNext]_vars

\* C30: the analysis state always reflects the most recent user action: after
\* reset() the status stays 'idle' until the next analyzeFile, and once a file
\* was submitted the state is the one written by that latest call, with its
\* file name, never one written by the continuation of an earlier call.
C30_StateReflectsLastAction ==
    /\ lastAction = 0 => state = INITIAL_STATE
    /\ lastAction > 0 =>
          /\ shown = lastAction
          /\ state.fileName = calls[lastAction].file

====
